---------------------------- MODULE Spec2Model ----------------------------
(***************************************************************************)
(* Text preprocessing pipeline of 3dchat: PreprocessingPipeline and its    *)
(* three default processors (PunctuationProcessor, EmojiProcessor,         *)
(* LinkProcessor), the link renderer and the reply handler of              *)
(* ChatInterface with the chat store, the viseme service and the           *)
(* VisemeApplier.                                                          *)
(*                                                                         *)
(* A JavaScript string is a sequence of UTF-16 code units.  A code unit is *)
(* written as a one-character TLA+ string, except the code units outside   *)
(* ASCII, which are written by their hexadecimal number ("D83D").  All     *)
(* indices are 0-based, as in the source; At(s, i) is s[i] of the source.  *)
(*                                                                         *)
(* The repository holds two versions of PunctuationProcessor and of        *)
(* EmojiProcessor; the variable variant says which pair is built in:       *)
(*   "src"      processors/PunctuationProcessor.ts, processors/EmojiProcessor.ts *)
(*   "unnamed"  unnamed/part_004, unnamed/part_007                         *)
(***************************************************************************)
EXTENDS Integers, Sequences, FiniteSets, TLC

VARIABLES
  variant,        \* which version of the two processors is built in
  processors,     \* PreprocessingPipeline.processors
  urlLastIndex,   \* URL_PATTERN.lastIndex (module-level /g regex)
  emojiLastIndex, \* EMOJI_PATTERN.lastIndex (module-level /gu regex)
  pc,             \* position of the running process call
  original,       \* process: text
  cleanText,      \* process: let cleanText
  displayText,    \* process: let displayText
  metadata,       \* process: const metadata
  idx,            \* process: position of the for-of loop (1-based)
  frame,          \* locals of the processor being executed
  invoked,        \* names of the processors invoked by the running call
  result,         \* value returned by the last finished process call
  used,           \* an earlier call advanced a module-level regex
  calls,          \* the processor calls of the running process call, with
                  \* what each was handed and what it returned
  messages,             \* useChatStore: messages
  processedMessages,    \* useChatStore: processedMessages
  uuids,                \* number of values crypto.randomUUID() has returned
  vsText,               \* textToVisemes: text
  vsDuration,           \* textToVisemes: duration
  vsCues,               \* getCurrentViseme: visemes
  vsTime,               \* getCurrentViseme: currentTime
  vsShape,              \* value returned by getCurrentViseme
  vsCalled,             \* the function of the viseme service called last
  vrm,                  \* VisemeApplier.vrm
  currentViseme,        \* VisemeApplier.currentViseme
  targetViseme,         \* VisemeApplier.targetViseme
  transitionProgress,   \* VisemeApplier.transitionProgress
  availableExpressions, \* VisemeApplier.availableExpressions
  weights,              \* expression weights of each renderer
  lastCall,             \* the method of VisemeApplier called last
  audioContext,         \* state of the module-level audioContext, "null" for null
  currentAudioSource,   \* the source currentAudioSource refers to, 0 for null
  playPc,               \* position of each playAudio call
  sourceState,          \* state of the source each playAudio call creates
  isSpeaking            \* useChatStore: isSpeaking

pipelineVars == <<variant, processors, urlLastIndex, emojiLastIndex, pc, original,
                  cleanText, displayText, metadata, idx, frame, invoked, result,
                  used, calls>>
storeVars == <<messages, processedMessages, uuids>>
serviceVars == <<vsText, vsDuration, vsCues, vsTime, vsShape, vsCalled>>
applierVars == <<vrm, currentViseme, targetViseme, transitionProgress,
                 availableExpressions, weights, lastCall>>

audioVars == <<audioContext, currentAudioSource, playPc, sourceState, isSpeaking>>

\* what the pipeline leaves alone
outside == <<storeVars, serviceVars, applierVars, audioVars>>

vars == <<pipelineVars, storeVars, serviceVars, applierVars, audioVars>>

-----------------------------------------------------------------------------
(* Bounds of the model *)

\* inputs are concatenations of at most MaxTokens tokens
MaxTokens == 3
\* iterations of one scanning loop that the model follows
MaxIter == 6
\* runtime registrations followed by the registry specification
MaxCustom == 2
\* number of playAudio calls
MaxPlays == 3

-----------------------------------------------------------------------------
(* Code units and character classes *)

SP == " "
NL == "\n"
STAR == "*"
HASH == "#"
\* U+1F60A (smiling face) is the surrogate pair D83D DE0A
HiSurrogate == "D83D"
LoSurrogate == "DE0A"
\* U+2728 (sparkles), one code unit, Emoji_Presentation
Sparkles == "2728"
\* U+2764 (heavy black heart), Extended_Pictographic; U+FE0F is not
Heart == "2764"
VS16 == "FE0F"

Lower == {"a","b","c","d","e","f","g","h","i","j","k","l","m",
          "n","o","p","q","r","s","t","u","v","w","x","y","z"}
Upper == {"A","B","C","D","E","F","G","H","I","J","K","L","M",
          "N","O","P","Q","R","S","T","U","V","W","X","Y","Z"}
Digit == {"0","1","2","3","4","5","6","7","8","9"}

\* \s
IsSpace(c) == c \in {SP, NL}
NotSpace(c) == ~IsSpace(c)
\* \w
IsWord(c) == c \in Lower \cup Upper \cup Digit \cup {"_"}
\* [A-Z]
IsUpper(c) == c \in Upper
IsStar(c) == c = STAR
NotStar(c) == c # STAR
IsHash(c) == c = HASH

-----------------------------------------------------------------------------
(* String primitives of the language *)

Min(a, b) == IF a <= b THEN a ELSE b
Max(a, b) == IF a >= b THEN a ELSE b

At(s, i) == s[i + 1]

\* String.prototype.substring(a, b): both clamped to [0, length], swapped if a > b
Substring(s, a, b) ==
  LET ca == Max(0, Min(a, Len(s)))
      cb == Max(0, Min(b, Len(s)))
  IN  SubSeq(s, Min(ca, cb) + 1, Max(ca, cb))

\* String.prototype.substring(a)
SubstringFrom(s, a) == Substring(s, a, Len(s))

\* s.startsWith(p), and p at position i of s
HasPrefixAt(s, i, p) ==
  /\ i + Len(p) <= Len(s)
  /\ \A k \in 1..Len(p) : s[i + k] = p[k]

\* end of the maximal run of code units satisfying P that starts at i
RunEnd(s, i, P(_)) ==
  CHOOSE j \in i..Len(s) :
    /\ \A k \in i..(j - 1) : P(At(s, k))
    /\ (j = Len(s) \/ ~P(At(s, j)))

\* String.prototype.trim()
Trim(s) ==
  LET keep == {i \in 1..Len(s) : ~IsSpace(s[i])}
  IN  IF keep = {} THEN <<>>
      ELSE SubSeq(s, CHOOSE i \in keep : \A j \in keep : i <= j,
                     CHOOSE i \in keep : \A j \in keep : i >= j)

\* least element of a non-empty set of integers
Least(S) == CHOOSE i \in S : \A j \in S : i <= j

NoMatch == [found |-> FALSE, index |-> 0, end |-> 0, innerStart |-> 0, innerEnd |-> 0]

-----------------------------------------------------------------------------
(* The regular expressions, as the matcher evaluates them *)

\* RegExp.prototype.exec of a /g regex: the leftmost match starting at or
\* after lastIndex; none when lastIndex is past the end.  No pattern of the
\* program matches the empty string.
RegExpExec(text, lastIndex, MatchAt(_, _)) ==
  IF lastIndex > Len(text) THEN NoMatch
  ELSE LET hits == {i \in lastIndex..(Len(text) - 1) : MatchAt(text, i).found}
       IN  IF hits = {} THEN NoMatch ELSE MatchAt(text, Least(hits))

\* lastIndex of a /g regex after exec returned m
LastIndexAfter(m) == IF m.found THEN m.end ELSE 0

\* /\*+([^*]+)\*+/ at position i: a maximal run of asterisks, a maximal
\* non-empty run of other code units, and the maximal run of asterisks after it
AsteriskMatchAt(text, i) ==
  LET j == RunEnd(text, i, IsStar)
      k == RunEnd(text, j, NotStar)
      m == RunEnd(text, k, IsStar)
  IN  [found |-> j > i /\ k > j /\ m > k, index |-> i, end |-> m,
       innerStart |-> j, innerEnd |-> k]

\* {3,} of the caps pattern
MinCapsLen == 3

\* /\b([A-Z]{3,})\b/ at position i
CapsMatchAt(text, i) ==
  LET k == RunEnd(text, i, IsUpper)
  IN  [found |-> /\ (i = 0 \/ ~IsWord(At(text, i - 1)))
                 /\ k - i >= MinCapsLen
                 /\ (k = Len(text) \/ ~IsWord(At(text, k))),
       index |-> i, end |-> k, innerStart |-> i, innerEnd |-> k]

\* {1,6} of HEADING_MARKER_PATTERN
MaxHeadingLevel == 6

\* /^#{1,6}\s+/m at position i: the length of the match, 0 when there is none
HeadingMatchLen(text, i) ==
  LET h == RunEnd(text, i, IsHash)
      w == RunEnd(text, h, IsSpace)
  IN  IF /\ (i = 0 \/ At(text, i - 1) = NL)
         /\ h - i >= 1 /\ h - i <= MaxHeadingLevel
         /\ w > h
      THEN w - i ELSE 0

RECURSIVE StripFrom(_, _)
\* text.replace(HEADING_MARKER_PATTERN, ''), scanning from position i
StripFrom(text, i) ==
  IF i >= Len(text) THEN <<>>
  ELSE LET n == HeadingMatchLen(text, i)
       IN  IF n > 0 THEN StripFrom(text, i + n)
           ELSE <<At(text, i)>> \o StripFrom(text, i + 1)

StripHeadings(text) == StripFrom(text, 0)

HTTP == <<"h","t","t","p",":","/","/">>
HTTPS == <<"h","t","t","p","s",":","/","/">>
WWW == <<"w","w","w",".">>

\* /(https?:\/\/[^\s]+|www\.[^\s]+)/ at position i
UrlMatchAt(text, i) ==
  LET e == RunEnd(text, i, NotSpace)
      scheme == IF HasPrefixAt(text, i, HTTPS) THEN Len(HTTPS)
                ELSE IF HasPrefixAt(text, i, HTTP) THEN Len(HTTP)
                ELSE IF HasPrefixAt(text, i, WWW) THEN Len(WWW)
                ELSE 0
  IN  [found |-> scheme > 0 /\ e > i + scheme, index |-> i, end |-> e,
       innerStart |-> i, innerEnd |-> e]

\* code units that are a code point of [\p{Emoji_Presentation}\p{Extended_Pictographic}]
SingleUnitEmoji == {Sparkles, Heart}

\* /[\p{Emoji_Presentation}\p{Extended_Pictographic}]/u at position i
EmojiMatchAt(text, i) ==
  LET n == IF At(text, i) \in SingleUnitEmoji THEN 1
           ELSE IF /\ At(text, i) = HiSurrogate
                   /\ i + 1 < Len(text)
                   /\ At(text, i + 1) = LoSurrogate THEN 2
           ELSE 0
  IN  [found |-> n > 0, index |-> i, end |-> i + n,
       innerStart |-> i, innerEnd |-> i + n]

\* EMOJI_TO_GESTURE[emoji]
GestureOf(emoji) ==
  IF emoji = <<HiSurrogate, LoSurrogate>> THEN "happy"
  ELSE IF emoji = <<Sparkles>> THEN "sparkle"
  ELSE "undefined"

-----------------------------------------------------------------------------
(* Inputs *)

\* the pieces the bounded inputs are concatenated from
Tokens ==
  { <<"a">>, <<"A","A","A">>, <<SP>>, <<NL>>, <<STAR>>, <<HASH>>,
    <<HiSurrogate, LoSurrogate>>,
    <<"w","w","w",".","a">>,
    <<"h","t","t","p",":","/","/","a">> }

RECURSIVE TokenStrings(_)
TokenStrings(n) ==
  IF n = 0 THEN {<<>>}
  ELSE LET shorter == TokenStrings(n - 1)
       IN  shorter \cup {s \o t : s \in shorter, t \in Tokens}

\* "Hello *world*"
HelloWorld == <<"H","e","l","l","o",SP,STAR,"w","o","r","l","d",STAR>>
\* "This is VERY important"
VeryImportant == <<"T","h","i","s",SP,"i","s",SP,"V","E","R","Y",SP,
                   "i","m","p","o","r","t","a","n","t">>
\* "Visit https://example.com now"
VisitExample == <<"V","i","s","i","t",SP>> \o HTTPS \o
                <<"e","x","a","m","p","l","e",".","c","o","m",SP,"n","o","w">>
\* "www.test.com"
WwwTest == WWW \o <<"t","e","s","t",".","c","o","m">>
\* "I " + U+2764 U+FE0F + U+2728
HeartSparkles == <<"I", SP, Heart, VS16, Sparkles>>

\* "ABC DEF ABC"
TwoCapsWords == <<"A","B","C",SP,"D","E","F",SP,"A","B","C">>

Examples ==
  {HelloWorld, VeryImportant, VisitExample, WwwTest, HeartSparkles, TwoCapsWords}

\* "*# a*": the heading pattern matches once the asterisks are removed
StarredHeading == <<STAR, HASH, SP, "a", STAR>>
\* "# # a": two heading markers at the start of one line
TwiceMarked == <<HASH, SP, HASH, SP, "a">>

Corners == {StarredHeading, TwiceMarked}

Inputs == TokenStrings(MaxTokens) \cup Examples \cup Corners

-----------------------------------------------------------------------------
(* PreprocessingPipeline: the registry *)

PunctuationProcessor == [name |-> "punctuation", priority |-> 10]
EmojiProcessor == [name |-> "emoji", priority |-> 20]
LinkProcessor == [name |-> "link", priority |-> 30]

\* priorities of the processors registered at runtime
CustomPriorities == {5, 10, 25, 35}

RECURSIVE SortByPriority(_)
\* Array.prototype.sort((a, b) => a.priority - b.priority): stable
SortByPriority(s) ==
  IF Len(s) <= 1 THEN s
  ELSE LET front == SortByPriority(SubSeq(s, 1, Len(s) - 1))
           p == s[Len(s)]
           n == Cardinality({i \in 1..Len(front) : front[i].priority <= p.priority})
       IN  SubSeq(front, 1, n) \o <<p>> \o SubSeq(front, n + 1, Len(front))

\* faulty variant of RegisterInto: push without the sort
RegisterUnsorted(list, processor) == Append(list, processor)

\* register(processor): push, then sort
RegisterInto(list, processor) == SortByPriority(Append(list, processor))

\* constructor()
Constructed ==
  RegisterInto(RegisterInto(RegisterInto(<<>>, PunctuationProcessor),
                            EmojiProcessor), LinkProcessor)

-----------------------------------------------------------------------------
(* The processors *)

EmptyMetadata == [emphasis |-> <<>>, emojis |-> <<>>, links |-> <<>>]

\* faulty variant of CloneMetadata: the processor starts from empty sequences
CloneEmpty(m) == [emphasis |-> <<>>, emojis |-> <<>>, links |-> <<>>]

\* BaseProcessor.cloneMetadata
CloneMetadata(m) ==
  [emphasis |-> [i \in 1..Len(m.emphasis) |-> m.emphasis[i]],
   emojis |-> [i \in 1..Len(m.emojis) |-> m.emojis[i]],
   links |-> [i \in 1..Len(m.links) |-> m.links[i]]]

\* the names of the three sequences of a TextMetadata
MetadataFields == {"emphasis", "emojis", "links"}

\* faulty variant of ClonedArrays: the object is copied, its arrays are not
ArraysOfShallowCopy(m) == MetadataFields

\* BaseProcessor.cloneMetadata: the sequences of the clone that are the very
\* arrays of m; every sequence of the clone is a new array literal [...]
ClonedArrays(m) == {}

NoFrame ==
  [text |-> <<>>, cleanText |-> <<>>, newMetadata |-> EmptyMetadata,
   positionOffset |-> 0, lastIndex |-> 0, iter |-> 0, seen |-> {},
   aliased |-> {}]

\* the locals of processor.process(text, metadata) on entry; aliased names
\* the sequences of newMetadata that are arrays of the caller's metadata
EnterFrame(text, m) ==
  [text |-> text, cleanText |-> text, newMetadata |-> CloneMetadata(m),
   positionOffset |-> 0, lastIndex |-> 0, iter |-> 0, seen |-> {},
   aliased |-> ClonedArrays(m)]

\* what the caller's metadata object m holds while the processor runs with
\* locals f: a sequence that is aliased holds what the processor pushed
CallerMetadata(f, m) ==
  [k \in MetadataFields |-> IF k \in f.aliased THEN f.newMetadata[k] ELSE m[k]]

\* the record of a processor call on entry
Handed(name, text, m) ==
  [name |-> name, text |-> text, received |-> m, returned |-> FALSE,
   cleanText |-> <<>>, displayText |-> <<>>, metadata |-> EmptyMetadata,
   callerMetadata |-> m, aliased |-> {}]

\* the record of a processor call when it returns with locals f
Returned(call, f) ==
  [call EXCEPT !.returned = TRUE,
               !.cleanText = f.cleanText,
               !.displayText = f.text,
               !.metadata = f.newMetadata,
               !.callerMetadata = CallerMetadata(f, call.received),
               !.aliased = f.aliased]

\* PunctuationProcessor.process: the entry pushed for an asterisk match
AsteriskSpan(f, m) ==
  LET innerText == Substring(f.text, m.innerStart, m.innerEnd)
      fullLen == m.end - m.index
  IN  [text |-> innerText,
       startIndex |-> m.index - f.positionOffset,
       endIndex |-> m.end - f.positionOffset - (fullLen - Len(innerText)),
       type |-> "asterisk"]

\* PunctuationProcessor.process: body of the asterisk loop
AsteriskBody(f, m) ==
  LET innerText == Substring(f.text, m.innerStart, m.innerEnd)
      fullLen == m.end - m.index
  IN  [f EXCEPT
        !.newMetadata.emphasis = Append(@, AsteriskSpan(f, m)),
        !.cleanText = Substring(@, 0, m.index - f.positionOffset) \o innerText
                      \o SubstringFrom(@, m.end - f.positionOffset),
        !.positionOffset = @ + (fullLen - Len(innerText)),
        !.iter = @ + 1]

\* the texts of a sequence of emphasis entries
EmphasisTexts(es) == {es[i].text : i \in 1..Len(es)}

\* faulty variant of CapsAlreadyExists: no deduplication
CapsNeverExists(f, word) == FALSE

\* PunctuationProcessor.process: is the caps word already recorded
CapsAlreadyExists(f, word) ==
  IF variant = "src"
  THEN \E i \in 1..Len(f.newMetadata.emphasis) :
         /\ f.newMetadata.emphasis[i].text = word
         /\ f.newMetadata.emphasis[i].type = "caps"
  ELSE word \in f.seen

\* PunctuationProcessor.process: body of the caps loop
CapsBody(f, m) ==
  LET word == Substring(f.text, m.innerStart, m.innerEnd)
  IN  IF CapsAlreadyExists(f, word)
      THEN [f EXCEPT !.iter = @ + 1]
      ELSE [f EXCEPT
             !.newMetadata.emphasis =
                Append(@, [text |-> word, startIndex |-> m.index,
                           endIndex |-> m.index + Len(word), type |-> "caps"]),
             !.seen = IF variant = "src" THEN @ ELSE @ \cup {word},
             !.iter = @ + 1]

\* faulty variant of EmojiBody: positionOffset is not advanced
EmojiBodyFixedOffset(f, m) ==
  LET emoji == Substring(f.text, m.index, m.end)
  IN  [f EXCEPT
        !.newMetadata.emojis =
           Append(@, [emoji |-> emoji, position |-> m.index - f.positionOffset,
                      gesture |-> GestureOf(emoji)]),
        !.cleanText = Substring(@, 0, m.index - f.positionOffset)
                      \o SubstringFrom(@, m.end - f.positionOffset),
        !.iter = @ + 1]

\* EmojiProcessor.process: body of the loop
EmojiBody(f, m) ==
  LET emoji == Substring(f.text, m.index, m.end)
  IN  [f EXCEPT
        !.newMetadata.emojis =
           Append(@, [emoji |-> emoji, position |-> m.index - f.positionOffset,
                      gesture |-> GestureOf(emoji)]),
        !.cleanText = Substring(@, 0, m.index - f.positionOffset)
                      \o SubstringFrom(@, m.end - f.positionOffset),
        !.positionOffset = @ + Len(emoji),
        !.iter = @ + 1]

\* faulty variant of NormalizeUrl: the scheme is prefixed to every match
NormalizeUrlAlways(url) == HTTPS \o url

\* LinkProcessor.process: normalizedUrl
NormalizeUrl(url) ==
  IF HasPrefixAt(url, 0, <<"w","w","w">>) THEN HTTPS \o url ELSE url

\* faulty variant of LinkBody: the code unit after the URL is removed with it
LinkBodyCollapsing(f, m) ==
  LET url == Substring(f.text, m.index, m.end)
  IN  [f EXCEPT
        !.newMetadata.links =
           Append(@, [url |-> NormalizeUrl(url), displayText |-> url,
                      startIndex |-> m.index - f.positionOffset,
                      endIndex |-> m.end - f.positionOffset]),
        !.cleanText = Substring(@, 0, m.index - f.positionOffset)
                      \o SubstringFrom(@, m.end - f.positionOffset + 1),
        !.positionOffset = @ + Len(url) + 1,
        !.iter = @ + 1]

\* LinkProcessor.process: body of the loop
LinkBody(f, m) ==
  LET url == Substring(f.text, m.index, m.end)
  IN  [f EXCEPT
        !.newMetadata.links =
           Append(@, [url |-> NormalizeUrl(url), displayText |-> url,
                      startIndex |-> m.index - f.positionOffset,
                      endIndex |-> m.end - f.positionOffset]),
        !.cleanText = Substring(@, 0, m.index - f.positionOffset)
                      \o SubstringFrom(@, m.end - f.positionOffset),
        !.positionOffset = @ + Len(url),
        !.iter = @ + 1]

-----------------------------------------------------------------------------
(* ChatInterface: renderMessageContent *)

RECURSIVE SortByStartIndex(_)
\* [...metadata.links].sort((a, b) => a.startIndex - b.startIndex): stable
SortByStartIndex(s) ==
  IF Len(s) <= 1 THEN s
  ELSE LET front == SortByStartIndex(SubSeq(s, 1, Len(s) - 1))
           l == s[Len(s)]
           n == Cardinality({i \in 1..Len(front) : front[i].startIndex <= l.startIndex})
       IN  SubSeq(front, 1, n) \o <<l>> \o SubSeq(front, n + 1, Len(front))

RECURSIVE RenderParts(_, _, _, _)
\* the for-of loop of renderMessageContent from sortedLinks[k] on, with its
\* lastIndex: the text of the parts pushed, the anchors by their visible text
RenderParts(content, sortedLinks, k, lastIndex) ==
  IF k > Len(sortedLinks)
  THEN IF lastIndex < Len(content) THEN SubstringFrom(content, lastIndex) ELSE <<>>
  ELSE LET link == sortedLinks[k]
           before == IF link.startIndex > lastIndex
                     THEN Substring(content, lastIndex, link.startIndex)
                     ELSE <<>>
       IN  before \o link.displayText
           \o RenderParts(content, sortedLinks, k + 1, link.endIndex)

\* renderMessageContent(content, metadata): the text the parts show
RenderMessageContent(content, links) ==
  IF Len(links) = 0 THEN content
  ELSE RenderParts(content, SortByStartIndex(links), 1, 0)

-----------------------------------------------------------------------------
(* visemeService *)

RECURSIVE GCD(_, _)
GCD(a, b) == IF b = 0 THEN a ELSE GCD(b, a % b)

\* a number of seconds, as a fraction in lowest terms with positive
\* denominator; the rounding of floating point is left out
Rat(n, d) ==
  LET g == GCD(IF n < 0 THEN -n ELSE n, d)
  IN  [num |-> n \div g, den |-> d \div g]
Zero == [num |-> 0, den |-> 1]
\* an optional argument or field that is absent
Undefined == [num |-> 0, den |-> 0]

RatAdd(a, b) == Rat(a.num * b.den + b.num * a.den, a.den * b.den)
RatLeq(a, b) == a.num * b.den <= b.num * a.den
\* a * n / d
RatScale(a, n, d) == Rat(a.num * n, a.den * d)

\* String.prototype.toLowerCase on one code unit
ToLower(c) ==
  CASE c = "A" -> "a" [] c = "B" -> "b" [] c = "C" -> "c" [] c = "D" -> "d"
    [] c = "E" -> "e" [] c = "F" -> "f" [] c = "G" -> "g" [] c = "H" -> "h"
    [] c = "I" -> "i" [] c = "J" -> "j" [] c = "K" -> "k" [] c = "L" -> "l"
    [] c = "M" -> "m" [] c = "N" -> "n" [] c = "O" -> "o" [] c = "P" -> "p"
    [] c = "Q" -> "q" [] c = "R" -> "r" [] c = "S" -> "s" [] c = "T" -> "t"
    [] c = "U" -> "u" [] c = "V" -> "v" [] c = "W" -> "w" [] c = "X" -> "x"
    [] c = "Y" -> "y" [] c = "Z" -> "z" [] OTHER -> c

\* PHONEME_TO_VISEME[char] || 'sil', for a string of one code unit; every
\* one-unit key has the same value in both cases
getVisemeForChar(char) ==
  LET c == ToLower(char)
  IN  CASE c \in {"a", "h"} -> "aa"
        [] c = "e" -> "E"
        [] c \in {"i", "y"} -> "ih"
        [] c = "o" -> "oh"
        [] c \in {"u", "w"} -> "ou"
        [] c \in {"b", "p", "m"} -> "PP"
        [] c \in {"f", "v"} -> "FF"
        [] c \in {"d", "t"} -> "DD"
        [] c \in {"n", "l"} -> "nn"
        [] c \in {"s", "z"} -> "SS"
        [] c = "j" -> "CH"
        [] c \in {"k", "g"} -> "kk"
        [] c = "r" -> "RR"
        [] OTHER -> "sil"

\* length of every key of VOWEL_COMBINATIONS
ComboLength == 2

\* the value of the first key of VOWEL_COMBINATIONS that equals pair when
\* both are lowercased, "none" when there is none; the lowercase keys come
\* first and no two of them are equal
VowelCombination(pair) ==
  LET p == [i \in 1..Len(pair) |-> ToLower(pair[i])]
  IN  CASE p \in {<<"a","i">>, <<"a","y">>, <<"e","e">>, <<"i","e">>, <<"u","i">>} -> "ih"
        [] p \in {<<"e","a">>, <<"e","i">>, <<"e","y">>} -> "E"
        [] p \in {<<"o","a">>, <<"o","e">>, <<"o","o">>, <<"o","u">>,
                  <<"o","w">>, <<"u","e">>} -> "ou"
        [] OTHER -> "none"

\* a cue { name, weight: 1, duration }
Cue(name, duration) == [name |-> name, weight |-> 1, duration |-> duration]

\* the one cue returned for a blank text
SilenceCue == Cue("sil", Undefined)

RECURSIVE SplitFrom(_, _)
\* text.split(/\s+/), from position i on
SplitFrom(text, i) ==
  LET spaces == {j \in i..(Len(text) - 1) : IsSpace(At(text, j))}
  IN  IF spaces = {} THEN <<SubstringFrom(text, i)>>
      ELSE LET j == Least(spaces)
           IN  <<Substring(text, i, j)>> \o SplitFrom(text, RunEnd(text, j, IsSpace))

RECURSIVE WordCues(_, _, _)
\* textToVisemes: the while loop over the characters of word, from i on
WordCues(word, i, timePerChar) ==
  IF i >= Len(word) THEN <<>>
  ELSE LET combo == VowelCombination(Substring(word, i, i + ComboLength))
       IN  IF combo # "none"
           THEN <<Cue(combo, RatScale(timePerChar, ComboLength, 1))>>
                \o WordCues(word, i + ComboLength, timePerChar)
           ELSE LET viseme == getVisemeForChar(At(word, i))
                IN  (IF viseme # "sil" THEN <<Cue(viseme, timePerChar)>> ELSE <<>>)
                    \o WordCues(word, i + 1, timePerChar)

RECURSIVE WordsCues(_, _, _)
\* textToVisemes: the for-of loop over words, from word k on
WordsCues(words, k, timePerChar) ==
  IF k > Len(words) THEN <<>>
  ELSE (IF Len(words[k]) = 0 THEN <<>>
        ELSE <<Cue("sil", RatScale(timePerChar, 1, 2))>>
             \o WordCues(words[k], 0, timePerChar)
             \o <<Cue("sil", RatScale(timePerChar, 1, 2))>>)
       \o WordsCues(words, k + 1, timePerChar)

\* faulty variant of CuesOfText: the final silence cue is left out
CuesOfTextUnclosed(text, duration) ==
  LET estimatedDuration == IF duration = Undefined THEN Rat(15 * Len(text), 100)
                           ELSE duration
      timePerChar == RatScale(estimatedDuration, 1, Len(text))
  IN  WordsCues(SplitFrom(text, 0), 1, timePerChar)

\* textToVisemes past the guard: text is not blank
CuesOfText(text, duration) ==
  LET estimatedDuration == IF duration = Undefined THEN Rat(15 * Len(text), 100)
                           ELSE duration
      timePerChar == RatScale(estimatedDuration, 1, Len(text))
  IN  WordsCues(SplitFrom(text, 0), 1, timePerChar) \o <<Cue("sil", Undefined)>>

\* faulty variant of textToVisemes: no cue at all for a blank text
textToVisemesEmptyForBlank(text, duration) ==
  IF Len(text) = 0 \/ Len(Trim(text)) = 0 THEN <<>>
  ELSE CuesOfText(text, duration)

textToVisemes(text, duration) ==
  IF Len(text) = 0 \/ Len(Trim(text)) = 0 THEN <<SilenceCue>>
  ELSE CuesOfText(text, duration)

\* viseme.duration ?? 0.1
DurationOf(viseme) ==
  IF viseme.duration = Undefined THEN Rat(1, 10) ELSE viseme.duration

RECURSIVE CurrentFromStrict(_, _, _, _)
CurrentFromStrict(visemes, k, accumulatedTime, currentTime) ==
  IF k > Len(visemes) THEN "sil"
  ELSE LET acc == RatAdd(accumulatedTime, DurationOf(visemes[k]))
       IN  IF ~RatLeq(acc, currentTime) THEN visemes[k].name
           ELSE CurrentFromStrict(visemes, k + 1, acc, currentTime)

\* faulty variant of getCurrentViseme: currentTime < accumulatedTime
getCurrentVisemeStrict(visemes, currentTime) ==
  IF Len(visemes) = 0 THEN "sil"
  ELSE CurrentFromStrict(visemes, 1, Zero, currentTime)

RECURSIVE CurrentFrom(_, _, _, _)
\* getCurrentViseme: the for-of loop from cue k on
CurrentFrom(visemes, k, accumulatedTime, currentTime) ==
  IF k > Len(visemes) THEN "sil"
  ELSE LET acc == RatAdd(accumulatedTime, DurationOf(visemes[k]))
       IN  IF RatLeq(currentTime, acc) THEN visemes[k].name
           ELSE CurrentFrom(visemes, k + 1, acc, currentTime)

getCurrentViseme(visemes, currentTime) ==
  IF Len(visemes) = 0 THEN "sil"
  ELSE CurrentFrom(visemes, 1, Zero, currentTime)

-----------------------------------------------------------------------------
(* VisemeApplier *)

\* vrm: null, a VRM without expressionManager, a VRM with one
NoVRM == "null"
BareVRM == "bare"
Renderers == {"vrm1"}
VRMs == {NoVRM, BareVRM} \cup Renderers

\* transitionDuration in milliseconds; transitionProgress is counted in
\* units of 1 / TransitionDuration, so that 1.0 is Complete
TransitionDuration == 100
Complete == TransitionDuration

\* the expression names setVRM initialises availableExpressions with
CommonExpressions ==
  {"neutral", "aa", "ih", "ou", "E", "oh", "fun", "angry", "sad", "surprised",
   "joy", "sorrow", "blink", "blinkLeft", "blinkRight",
   "mouth_a", "mouth_i", "mouth_u", "mouth_e", "mouth_o",
   "mouth_close", "mouth_open"}

\* the expressions a renderer holds a weight for
Expressions == CommonExpressions

\* has vrm an expressionManager: vrm?.expressionManager
HasExpressionManager(v) == v \in Renderers

\* VRM_VISEME_MAPPING
VRM_VISEME_MAPPING(viseme) ==
  CASE viseme = "sil" -> <<"neutral", "mouth_close">>
    [] viseme \in {"PP", "DD", "kk", "nn", "aa"} -> <<"aa", "mouth_a">>
    [] viseme \in {"FF", "TH", "SS", "ih"} -> <<"ih", "mouth_i">>
    [] viseme \in {"CH", "RR", "ou"} -> <<"ou", "mouth_u">>
    [] viseme = "E" -> <<"E", "mouth_e">>
    [] viseme = "oh" -> <<"oh", "mouth_o">>

\* the names of type VisemeName
VisemeNames ==
  {"sil", "PP", "FF", "TH", "DD", "kk", "CH", "SS", "nn", "RR",
   "aa", "E", "ih", "oh", "ou"}

\* getVRMBlendShapes(viseme)
getVRMBlendShapes(viseme) ==
  IF viseme \in VisemeNames THEN VRM_VISEME_MAPPING(viseme)
  ELSE VRM_VISEME_MAPPING("sil")

\* findAvailableExpression(candidates), "null" for null
findAvailableExpression(available, candidates) ==
  LET found == {i \in 1..Len(candidates) : candidates[i] \in available}
  IN  IF found # {} THEN candidates[Least(found)]
      ELSE IF "neutral" \in available THEN "neutral" ELSE "null"

\* findAvailableExpression(candidates) || 'neutral'
ExpressionFor(available, viseme) ==
  LET name == findAvailableExpression(available, getVRMBlendShapes(viseme))
  IN  IF name = "null" THEN "neutral" ELSE name

\* expressionManager.setValue(name, weight) on renderer r: the weight of an
\* expression the renderer holds is set, any other name is ignored
SetValue(w, r, name, weight) ==
  IF name \in Expressions THEN [w EXCEPT ![r][name] = weight] ELSE w

\* the record of the method called last, with the three fields before the
\* call; sinceReset says that reset() has run on an attached renderer and
\* only applyViseme has been called since
NoCall ==
  [method |-> "none", visemeName |-> "sil", deltaTime |-> 0,
   currentViseme |-> "sil", targetViseme |-> "sil", transitionProgress |-> Complete,
   sinceReset |-> FALSE]
CallOf(method, visemeName, deltaTime) ==
  [method |-> method, visemeName |-> visemeName, deltaTime |-> deltaTime,
   currentViseme |-> currentViseme, targetViseme |-> targetViseme,
   transitionProgress |-> transitionProgress,
   sinceReset |-> IF method = "reset" THEN HasExpressionManager(vrm)
                  ELSE IF method = "applyViseme" THEN lastCall.sinceReset
                  ELSE FALSE]

-----------------------------------------------------------------------------
(* The state machine *)

NoResult ==
  [original |-> <<>>, cleanText |-> <<>>, displayText |-> <<>>,
   metadata |-> EmptyMetadata]

Variants == {"src", "unnamed"}

\* new PreprocessingPipeline(), and the module-level regexes
PipelineConstructed ==
  /\ variant \in Variants
  /\ processors = Constructed
  /\ urlLastIndex = 0
  /\ emojiLastIndex = 0
  /\ pc = "idle"
  /\ original = <<>>
  /\ cleanText = <<>>
  /\ displayText = <<>>
  /\ metadata = EmptyMetadata
  /\ idx = 1
  /\ frame = NoFrame
  /\ invoked = <<>>
  /\ result = NoResult
  /\ used = FALSE
  /\ calls = <<>>

\* create<ChatState>: the initial state of the chat store
StoreCreated ==
  /\ messages = <<>>
  /\ processedMessages = <<>>
  /\ uuids = 0

\* no function of the viseme service has been called
ServiceIdle ==
  /\ vsText = <<>>
  /\ vsDuration = Undefined
  /\ vsCues = <<>>
  /\ vsTime = Zero
  /\ vsShape = "sil"
  /\ vsCalled = <<>>

\* the field initialisers of VisemeApplier, and renderers that show nothing
ApplierConstructed ==
  /\ vrm = NoVRM
  /\ currentViseme = "sil"
  /\ targetViseme = "sil"
  /\ transitionProgress = Complete
  /\ availableExpressions = {}
  /\ weights = [r \in Renderers |-> [e \in Expressions |-> 0]]
  /\ lastCall = NoCall

\* the module-level variables of the speech service before any call, and
\* isSpeaking of the chat store
AudioIdle ==
  /\ audioContext = "null"
  /\ currentAudioSource = 0
  /\ playPc = [n \in 1..MaxPlays |-> "idle"]
  /\ sourceState = [n \in 1..MaxPlays |-> "none"]
  /\ isSpeaking = FALSE

Init ==
  /\ PipelineConstructed
  /\ StoreCreated
  /\ ServiceIdle
  /\ ApplierConstructed
  /\ AudioIdle

\* the first position of processor p
EntryOf(p) ==
  IF p.name = "punctuation" THEN "punct_asterisk"
  ELSE IF p.name = "emoji" THEN "emoji_scan"
  ELSE IF p.name = "link" THEN "link_scan"
  ELSE "custom"

\* process(text): the statements before the loop
ProcessFrom(texts) ==
  /\ pc = "idle"
  /\ \E text \in texts :
       /\ original' = text
       /\ cleanText' = text
       /\ displayText' = text
  /\ metadata' = EmptyMetadata
  /\ idx' = 1
  /\ invoked' = <<>>
  /\ calls' = <<>>
  /\ frame' = NoFrame
  /\ result' = NoResult
  /\ pc' = "loop"
  /\ UNCHANGED <<outside, variant, used, processors, urlLastIndex, emojiLastIndex>>

Process == ProcessFrom(Inputs)

\* faulty variant of Invoke: every processor is handed the raw text
InvokeWithOriginal ==
  /\ pc = "loop"
  /\ idx <= Len(processors)
  /\ frame' = EnterFrame(original, metadata)
  /\ invoked' = Append(invoked, processors[idx].name)
  /\ calls' = Append(calls, Handed(processors[idx].name, original, metadata))
  /\ pc' = EntryOf(processors[idx])
  /\ UNCHANGED <<outside, variant, used, processors, urlLastIndex, emojiLastIndex, original,
                 cleanText, displayText, metadata, idx, result>>

\* process: processor.process(cleanText, metadata) is entered
Invoke ==
  /\ pc = "loop"
  /\ idx <= Len(processors)
  /\ frame' = EnterFrame(cleanText, metadata)
  /\ invoked' = Append(invoked, processors[idx].name)
  /\ calls' = Append(calls, Handed(processors[idx].name, cleanText, metadata))
  /\ pc' = EntryOf(processors[idx])
  /\ UNCHANGED <<outside, variant, used, processors, urlLastIndex, emojiLastIndex, original,
                 cleanText, displayText, metadata, idx, result>>

\* the processor returns {cleanText, displayText: text, metadata: newMetadata}
\* and process takes the three over
ReturnToPipeline(f) ==
  /\ cleanText' = f.cleanText
  /\ displayText' = f.text
  /\ metadata' = [emphasis |-> f.newMetadata.emphasis,
                  emojis |-> f.newMetadata.emojis,
                  links |-> f.newMetadata.links]
  /\ idx' = idx + 1
  /\ calls' = [calls EXCEPT ![Len(calls)] = Returned(@, f)]
  /\ frame' = NoFrame
  /\ pc' = "loop"

\* lastIndex the asterisk and caps patterns start an exec from: the regex
\* object lives through the loop in "src"; in "unnamed" the literal is in the
\* loop condition and every evaluation makes a new object
LiteralLastIndex(f) == IF variant = "src" THEN f.lastIndex ELSE 0

\* PunctuationProcessor.process: one evaluation of the asterisk loop condition
PunctAsterisk ==
  /\ pc = "punct_asterisk"
  /\ frame.iter < MaxIter
  /\ LET m == RegExpExec(frame.text, LiteralLastIndex(frame), AsteriskMatchAt)
     IN  IF m.found
         THEN /\ frame' = [AsteriskBody(frame, m) EXCEPT !.lastIndex = LastIndexAfter(m)]
              /\ pc' = pc
         ELSE /\ frame' = [frame EXCEPT !.lastIndex = 0, !.iter = 0]
              /\ pc' = "punct_heading"
  /\ UNCHANGED <<outside, calls, variant, used, processors, urlLastIndex, emojiLastIndex, original,
                 cleanText, displayText, metadata, idx, invoked, result>>

\* PunctuationProcessor.process: the heading markers are replaced
PunctHeading ==
  /\ pc = "punct_heading"
  /\ frame' = [frame EXCEPT
                 !.cleanText = StripHeadings(@),
                 !.seen = IF variant = "src" THEN {}
                          ELSE EmphasisTexts(frame.newMetadata.emphasis)]
  /\ pc' = "punct_caps"
  /\ UNCHANGED <<outside, calls, variant, used, processors, urlLastIndex, emojiLastIndex, original,
                 cleanText, displayText, metadata, idx, invoked, result>>

\* PunctuationProcessor.process: one evaluation of the caps loop condition
PunctCaps ==
  /\ pc = "punct_caps"
  /\ frame.iter < MaxIter
  /\ LET m == RegExpExec(frame.text, LiteralLastIndex(frame), CapsMatchAt)
     IN  IF m.found
         THEN /\ frame' = [CapsBody(frame, m) EXCEPT !.lastIndex = LastIndexAfter(m)]
              /\ pc' = pc
              /\ UNCHANGED <<cleanText, displayText, metadata, idx, calls>>
         ELSE ReturnToPipeline(frame)
  /\ UNCHANGED <<outside, variant, used, processors, urlLastIndex, emojiLastIndex, original,
                 invoked, result>>

\* EmojiProcessor.process: one evaluation of the loop condition; "src" scans
\* with a copy of EMOJI_PATTERN, "unnamed" with EMOJI_PATTERN itself
EmojiScan ==
  /\ pc = "emoji_scan"
  /\ frame.iter < MaxIter
  /\ LET from == IF variant = "src" THEN frame.lastIndex ELSE emojiLastIndex
         m == RegExpExec(frame.text, from, EmojiMatchAt)
     IN  /\ IF variant = "src"
            THEN UNCHANGED emojiLastIndex
            ELSE emojiLastIndex' = LastIndexAfter(m)
         /\ IF m.found
            THEN /\ frame' = [EmojiBody(frame, m) EXCEPT
                                !.lastIndex = IF variant = "src"
                                              THEN LastIndexAfter(m) ELSE @]
                 /\ pc' = pc
                 /\ UNCHANGED <<cleanText, displayText, metadata, idx, calls>>
            ELSE ReturnToPipeline(frame)
  /\ UNCHANGED <<outside, variant, used, processors, urlLastIndex, original, invoked, result>>

\* faulty variant of LinkScan: an if in place of the while, the first match only
LinkScanFirstOnly ==
  /\ pc = "link_scan"
  /\ frame.iter < MaxIter
  /\ LET m == RegExpExec(frame.text, urlLastIndex, UrlMatchAt)
     IN  /\ urlLastIndex' = LastIndexAfter(m)
         /\ ReturnToPipeline(IF m.found THEN LinkBody(frame, m) ELSE frame)
  /\ UNCHANGED <<outside, variant, used, processors, emojiLastIndex, original, invoked, result>>

\* LinkProcessor.process: one evaluation of the loop condition
LinkScan ==
  /\ pc = "link_scan"
  /\ frame.iter < MaxIter
  /\ LET m == RegExpExec(frame.text, urlLastIndex, UrlMatchAt)
     IN  /\ urlLastIndex' = LastIndexAfter(m)
         /\ IF m.found
            THEN /\ frame' = LinkBody(frame, m)
                 /\ pc' = pc
                 /\ UNCHANGED <<cleanText, displayText, metadata, idx, calls>>
            ELSE ReturnToPipeline(frame)
  /\ UNCHANGED <<outside, variant, used, processors, emojiLastIndex, original, invoked, result>>

\* a processor registered at runtime, of the shape the planning notes give:
\* return { cleanText: text, displayText: text, metadata: newMetadata }
Custom ==
  /\ pc = "custom"
  /\ ReturnToPipeline(frame)
  /\ UNCHANGED <<outside, variant, used, processors, urlLastIndex, emojiLastIndex, original,
                 invoked, result>>

\* register(processor), called between two process calls
Register ==
  /\ pc = "idle"
  /\ Len(processors) < Len(Constructed) + MaxCustom
  /\ \E p \in CustomPriorities :
       processors' = RegisterInto(processors, [name |-> "custom", priority |-> p])
  /\ UNCHANGED <<outside, calls, variant, used, urlLastIndex, emojiLastIndex, pc, original,
                 cleanText, displayText, metadata, idx, frame, invoked, result>>

\* faulty variant of Return: the texts are returned untrimmed
ReturnUntrimmed ==
  /\ pc = "loop"
  /\ idx > Len(processors)
  /\ result' = [original |-> original, cleanText |-> cleanText,
                displayText |-> displayText, metadata |-> metadata]
  /\ pc' = "done"
  /\ UNCHANGED <<outside, calls, variant, used, processors, urlLastIndex, emojiLastIndex, original,
                 cleanText, displayText, metadata, idx, frame, invoked>>

\* process: the return statement
Return ==
  /\ pc = "loop"
  /\ idx > Len(processors)
  /\ result' = [original |-> original, cleanText |-> Trim(cleanText),
                displayText |-> Trim(displayText), metadata |-> metadata]
  /\ pc' = "done"
  /\ UNCHANGED <<outside, calls, variant, used, processors, urlLastIndex, emojiLastIndex, original,
                 cleanText, displayText, metadata, idx, frame, invoked>>

\* the caller is done with the returned value: the locals of the call are
\* gone, the pipeline and the module-level regexes stay as the call left them
ReleaseCall ==
  /\ pc = "done"
  /\ pc' = "idle"
  /\ original' = <<>>
  /\ cleanText' = <<>>
  /\ displayText' = <<>>
  /\ metadata' = EmptyMetadata
  /\ idx' = 1
  /\ invoked' = <<>>
  /\ calls' = <<>>
  /\ result' = NoResult
  /\ used' = (\/ used
               \/ result.metadata.links # <<>>
               \/ (variant = "unnamed" /\ result.metadata.emojis # <<>>))
  /\ UNCHANGED <<variant, processors, urlLastIndex, emojiLastIndex, frame>>

\* a caller that does nothing else with the returned value
Release == ReleaseCall /\ UNCHANGED outside

Next ==
  \/ Process
  \/ Invoke
  \/ PunctAsterisk
  \/ PunctHeading
  \/ PunctCaps
  \/ EmojiScan
  \/ LinkScan
  \/ Return
  \/ Release

Spec == Init /\ [][Next]_vars

\* the pipeline with processors registered at runtime, on the worked examples
ProcessExample == ProcessFrom(Examples)

NextRegistry ==
  \/ Register
  \/ ProcessExample
  \/ Invoke
  \/ PunctAsterisk
  \/ PunctHeading
  \/ PunctCaps
  \/ EmojiScan
  \/ LinkScan
  \/ Custom
  \/ Return
  \/ Release

SpecRegistry == Init /\ [][NextRegistry]_vars

-----------------------------------------------------------------------------
(* Claims *)

Done == pc = "done"

\* the entries of an emphasis sequence that have type ty
OfType(es, ty) == {i \in 1..Len(es) : es[i].type = ty}

\* C1: for every input text the displayText that process returns equals
\* trim(text): the formatting stripped from cleanText (asterisks, emojis,
\* URLs) is still in displayText.
C1_DisplayTextKeepsFormatting ==
  Done => result.displayText = Trim(result.original)

\* C2: PunctuationProcessor.process terminates: each of its two scanning loops
\* advances through the text, so the body of a loop runs at most once per
\* code unit of the text it scans.
C2_ScanLoopsAdvance ==
  pc \in {"punct_asterisk", "punct_caps"} => frame.iter <= Len(frame.text)

\* C3: every EmphasisSpan of type asterisk that process returns has indices
\* into the cleanText that process returns:
\* cleanText.substring(startIndex, endIndex) = span.text.
C3_AsteriskSpansIndexCleanText ==
  Done =>
    \A i \in OfType(result.metadata.emphasis, "asterisk") :
      LET e == result.metadata.emphasis[i]
      IN  Substring(result.cleanText, e.startIndex, e.endIndex) = e.text

\* C4: the link spans that process returns are usable by index on the
\* displayText it returns: sorted by startIndex they do not overlap, each one
\* covers its own displayText, and renderMessageContent(displayText, metadata)
\* shows exactly displayText.
C4_LinksIndexDisplayText ==
  Done =>
    LET links == SortByStartIndex(result.metadata.links)
    IN  /\ \A k \in 1..(Len(links) - 1) : links[k].endIndex <= links[k + 1].startIndex
        /\ \A k \in 1..Len(links) :
             Substring(result.displayText, links[k].startIndex, links[k].endIndex)
               = links[k].displayText
        /\ RenderMessageContent(result.displayText, result.metadata.links)
             = result.displayText

\* the patterns of the three processors, as properties of a text
HasAsterisk(text) == \E i \in 1..Len(text) : text[i] = STAR
HasEmoji(text) == \E i \in 0..(Len(text) - 1) : EmojiMatchAt(text, i).found
HasUrl(text) == \E i \in 0..(Len(text) - 1) : UrlMatchAt(text, i).found
HasHeadingMarker(text) == \E i \in 0..(Len(text) - 1) : HeadingMatchLen(text, i) > 0
HasCapsWord(text) == \E i \in 0..(Len(text) - 1) : CapsMatchAt(text, i).found

\* what C5 promises of a call that has returned
PassedThrough ==
  /\ result.cleanText = Trim(result.original)
  /\ result.displayText = Trim(result.original)
  /\ result.metadata = EmptyMetadata

\* C5 as stated: for every text with no asterisks, no emoji and no URLs,
\* cleanText = displayText = trim(text) and the three metadata sequences are
\* empty.
C5_Original ==
  (Done /\ ~HasAsterisk(original) /\ ~HasEmoji(original) /\ ~HasUrl(original))
    => PassedThrough

\* C5 as amended: for every text with no asterisks, no emoji, no URLs, no
\* markdown heading marker (a line starting with 1 to 6 '#' and whitespace)
\* and no all-uppercase word of 3 or more letters, cleanText = displayText =
\* trim(text) and the three metadata sequences are empty.
C5_PlainTextPassesThrough ==
  (Done /\ ~HasAsterisk(original) /\ ~HasEmoji(original) /\ ~HasUrl(original)
        /\ ~HasHeadingMarker(original) /\ ~HasCapsWord(original))
    => PassedThrough

\* C5 witness: a plain text with whitespace to trim has been processed
C5_Witness ==
  /\ Done /\ ~HasAsterisk(original) /\ ~HasEmoji(original) /\ ~HasUrl(original)
  /\ ~HasHeadingMarker(original) /\ ~HasCapsWord(original)
  /\ result.cleanText # <<>>
  /\ result.cleanText # original

\* the positions of text where the caps pattern matches
CapsMatches(text) == {i \in 0..(Len(text) - 1) : CapsMatchAt(text, i).found}
CapsWordAt(text, i) == Substring(text, i, CapsMatchAt(text, i).end)

\* the caps entries of the returned emphasis are exactly the distinct
\* all-uppercase words of the text, one each, at the first occurrence
CapsEntriesExact ==
  LET es == result.metadata.emphasis
      caps == OfType(es, "caps")
  IN  /\ \A i \in caps : \E p \in CapsMatches(original) : es[i].text = CapsWordAt(original, p)
      /\ \A p \in CapsMatches(original) :
           LET w == CapsWordAt(original, p)
               first == Least({q \in CapsMatches(original) : CapsWordAt(original, q) = w})
           IN  /\ Cardinality({i \in caps : es[i].text = w}) = 1
               /\ \A i \in caps :
                    es[i].text = w =>
                      es[i].startIndex = first /\ es[i].endIndex = first + Len(w)

\* a step of the caps loop leaves the clean text as it was, also when the
\* processor returns it to process
CapsStepKeepsCleanText ==
  pc = "punct_caps" =>
    IF pc' = "punct_caps" THEN frame'.cleanText = frame.cleanText
    ELSE cleanText' = frame.cleanText

ExampleCom == HTTPS \o <<"e","x","a","m","p","l","e",".","c","o","m">>

\* the links of the worked example: one LinkSpan, url and displayText the URL
VisitExampleLinks ==
  /\ Len(result.metadata.links) = 1
  /\ result.metadata.links[1].url = ExampleCom
  /\ result.metadata.links[1].displayText = ExampleCom

RecordedLinks ==
  {frame.newMetadata.links[i] : i \in 1..Len(frame.newMetadata.links)}
    \cup {metadata.links[i] : i \in 1..Len(metadata.links)}
    \cup {result.metadata.links[i] : i \in 1..Len(result.metadata.links)}

BareWww(text) == HasPrefixAt(text, 0, WWW)
HasScheme(text) == HasPrefixAt(text, 0, HTTP) \/ HasPrefixAt(text, 0, HTTPS)

ExecOf(loop, text, lastIndex) ==
  IF loop = "asterisk" THEN RegExpExec(text, lastIndex, AsteriskMatchAt)
  ELSE IF loop = "caps" THEN RegExpExec(text, lastIndex, CapsMatchAt)
  ELSE IF loop = "emoji" THEN RegExpExec(text, lastIndex, EmojiMatchAt)
  ELSE RegExpExec(text, lastIndex, UrlMatchAt)

\* the body of the scanning loop named loop
BodyOf(loop, f, m) ==
  IF loop = "asterisk" THEN AsteriskBody(f, m)
  ELSE IF loop = "caps" THEN CapsBody(f, m)
  ELSE IF loop = "emoji" THEN EmojiBody(f, m)
  ELSE LinkBody(f, m)

RECURSIVE ScanAll(_, _, _)
\* a scanning loop run to its end with a regex object whose lastIndex is
\* lastIndex: while ((match = regex.exec(text)) !== null) body
ScanAll(loop, f, lastIndex) ==
  LET m == ExecOf(loop, f.text, lastIndex)
  IN  IF m.found THEN ScanAll(loop, BodyOf(loop, f, m), LastIndexAfter(m)) ELSE f

\* what the processor named name returns for (text, md) when every regex
\* starts at lastIndex 0, as [cleanText, displayText, metadata]
FreshProcessor(name, text, md) ==
  LET entered == EnterFrame(text, md)
      scanned ==
        IF name = "punctuation"
        THEN LET a == ScanAll("asterisk", entered, 0)
                 h == [a EXCEPT !.cleanText = StripHeadings(@),
                                !.seen = IF variant = "src" THEN {}
                                         ELSE EmphasisTexts(a.newMetadata.emphasis)]
             IN  ScanAll("caps", h, 0)
        ELSE IF name = "emoji" THEN ScanAll("emoji", entered, 0)
        ELSE IF name = "link" THEN ScanAll("link", entered, 0)
        ELSE entered
  IN  [cleanText |-> scanned.cleanText, displayText |-> text,
       metadata |-> scanned.newMetadata]

RECURSIVE FreshFold(_, _, _)
\* the for-of loop of process from processor k on, on a fresh pipeline
FreshFold(ps, k, acc) ==
  IF k > Len(ps) THEN acc
  ELSE FreshFold(ps, k + 1, FreshProcessor(ps[k].name, acc.cleanText, acc.metadata))

\* what the first call process(text) on a freshly constructed pipeline
\* returns, when it returns
FreshProcess(text) ==
  LET out == FreshFold(Constructed, 1,
                       [cleanText |-> text, displayText |-> text,
                        metadata |-> EmptyMetadata])
  IN  [original |-> text, cleanText |-> Trim(out.cleanText),
       displayText |-> Trim(out.displayText), metadata |-> out.metadata]

\* C9: the pipeline is deterministic and stateless across calls: whatever
\* calls came before, a call that returns returns what the first call on a
\* fresh pipeline returns for the same text, and it starts in the state in
\* which that first call starts; in particular URL_PATTERN and EMOJI_PATTERN
\* have lastIndex 0 when a call starts, and whenever process itself is
\* executing or has returned.
C9_CallsStartFresh ==
  /\ Done => result = FreshProcess(original)
  /\ pc \in {"idle", "loop", "done"} => urlLastIndex = 0 /\ emojiLastIndex = 0
  /\ pc = "idle" =>
       /\ processors = Constructed
       /\ frame = NoFrame
       /\ original = <<>> /\ cleanText = <<>> /\ displayText = <<>>
       /\ metadata = EmptyMetadata /\ idx = 1 /\ invoked = <<>>
       /\ result = NoResult

\* C9 witness: a call that found a URL has returned on a pipeline whose
\* earlier call advanced a module-level regex
C9_Witness == Done /\ used /\ result.metadata.links # <<>>

\* the names of a sequence of processors
Names(ps) == [i \in 1..Len(ps) |-> ps[i].name]

\* C10: after any sequence of register calls the processor list is sorted by
\* ascending priority, and process invokes the processors in exactly that
\* order; with the defaults alone the order is punctuation, emoji, link.
C10_SortedAndInvokedInOrder ==
  /\ \A i \in 1..(Len(processors) - 1) :
       processors[i].priority <= processors[i + 1].priority
  /\ invoked = Names(SubSeq(processors, 1, Len(invoked)))
  /\ pc = "loop" => Len(invoked) = idx - 1
  /\ Done => invoked = Names(processors)
  /\ (Done /\ Len(processors) = Len(Constructed)) =>
       invoked = <<"punctuation", "emoji", "link">>

\* C10 witness: a call has returned on a pipeline with two processors
\* registered at runtime, one sorted before and one after the defaults
C10_Witness ==
  /\ Done
  /\ Len(processors) = Len(Constructed) + 2
  /\ processors[1].name = "custom"
  /\ processors[Len(processors)].name = "custom"
  /\ invoked = Names(processors)

-----------------------------------------------------------------------------
(* Claims about the processor calls of one process call *)

\* the calls of the running process call that have returned
ReturnedCalls == {k \in 1..Len(calls) : calls[k].returned}

\* the names of the three default processors
DefaultNames == {"punctuation", "emoji", "link"}

\* the positions at which a processor is executing
InProcessor == pc \in {"punct_asterisk", "punct_heading", "punct_caps",
                       "emoji_scan", "link_scan"}

SpansWithin(es, n) ==
  \A i \in 1..Len(es) :
    /\ 0 <= es[i].startIndex
    /\ es[i].startIndex <= es[i].endIndex
    /\ es[i].endIndex <= n

\* C12: every emphasis span PunctuationProcessor.process returns, asterisk or
\* caps, satisfies 0 <= startIndex <= endIndex <= length of the clean text
\* the processor returns.
C12_SpansWithinReturnedCleanText ==
  \A k \in ReturnedCalls :
    calls[k].name = "punctuation" =>
      SpansWithin(calls[k].metadata.emphasis, Len(calls[k].cleanText))

\* does the asterisk pattern match somewhere in text
HasAsteriskConstruct(text) ==
  \E i \in 0..(Len(text) - 1) : AsteriskMatchAt(text, i).found

\* C13: the cleanText process returns holds no code unit of the emoji class,
\* no substring matching the URL pattern and no asterisk-wrapped construct.
C13_CleanTextHasNoMarkup ==
  Done => /\ ~HasEmoji(result.cleanText)
          /\ ~HasUrl(result.cleanText)
          /\ ~HasAsteriskConstruct(result.cleanText)

\* C13 witness: a call has returned for a text with an emoji, and one for a
\* text with a URL inside an asterisk-wrapped construct
C13_Witness ==
  /\ Done
  /\ \/ /\ HasEmoji(original)
        /\ result.metadata.emojis # <<>>
        /\ result.metadata.links # <<>>
     \/ /\ HasAsteriskConstruct(original)
        /\ HasUrl(original)
        /\ result.metadata.links # <<>>
        /\ result.metadata.emphasis # <<>>

\* C19: the first processor is handed the raw input text, every later one
\* exactly the cleanText the processor before it returned; the original
\* field of the result is the untrimmed input.
C19_TextIsChained ==
  /\ \A k \in 1..Len(calls) :
       IF k = 1 THEN calls[k].text = original
       ELSE /\ calls[k - 1].returned
            /\ calls[k].text = calls[k - 1].cleanText
  /\ Done => result.original = original

\* C19 witness: a call on a text with surrounding whitespace has returned, and
\* its last processor was handed a text other than the raw input
C19_Witness ==
  /\ Done
  /\ Len(calls) = Len(Constructed)
  /\ calls[Len(calls)].text # original
  /\ Trim(original) # original

\* is sequence s a prefix of sequence t
IsPrefix(s, t) == Len(s) <= Len(t) /\ SubSeq(t, 1, Len(s)) = s

\* the sequence a default processor appends to
OwnField(name) ==
  IF name = "punctuation" THEN "emphasis"
  ELSE IF name = "emoji" THEN "emojis"
  ELSE "links"

\* C20: metadata is append-only along the pipeline: each default processor is
\* handed the metadata the one before it returned, returns each of the three
\* sequences with the received entries as an unchanged prefix, and only its
\* own sequence grows; the final metadata is what the last processor returned.
C20_MetadataAppendOnly ==
  /\ \A k \in 1..Len(calls) :
       calls[k].received = IF k = 1 THEN EmptyMetadata ELSE calls[k - 1].metadata
  /\ \A k \in ReturnedCalls :
       calls[k].name \in DefaultNames =>
         \A field \in MetadataFields :
           /\ IsPrefix(calls[k].received[field], calls[k].metadata[field])
           /\ field # OwnField(calls[k].name) =>
                calls[k].metadata[field] = calls[k].received[field]
  /\ Done => result.metadata = calls[Len(calls)].metadata

\* C20 witness: a call has returned with entries of all three processors
C20_Witness ==
  /\ Done
  /\ result.metadata.emphasis # <<>>
  /\ result.metadata.emojis # <<>>
  /\ result.metadata.links # <<>>

-----------------------------------------------------------------------------
(* useChatStore, and the handlers of ChatInterface that write to it *)

\* handler runs the model follows, counted in UUIDs issued
MaxUuids == 11

MAX_MESSAGES == 10

\* Array.prototype.slice(-n)
SliceLast(s, n) == IF Len(s) <= n THEN s ELSE SubSeq(s, Len(s) - n + 1, Len(s))

\* the value of the k-th call of crypto.randomUUID(): no two calls return
\* the same value
RandomUUID(k) == k

\* addMessage(message) on the messages list, with the UUID it would draw;
\* the timestamp is left out
AddMessage(list, message, uuid) ==
  IF message.content = <<>> \/ message.role = ""
  THEN list
  ELSE SliceLast(Append(list, [id |-> uuid, role |-> message.role,
                               content |-> message.content]), MAX_MESSAGES)

\* setProcessedMessage(message) on the processedMessages list
SetProcessedMessage(list, message) == SliceLast(Append(list, message), MAX_MESSAGES)

\* ChatMessage: store.processedMessages.find(pm => pm.id === message.id),
\* as the positions of the entries found
ProcessedFor(message) ==
  {j \in 1..Len(processedMessages) : processedMessages[j].id = message.id}

\* ChatMessage: the metadata handed to renderMessageContent
MetadataFor(message) ==
  IF ProcessedFor(message) = {} THEN EmptyMetadata
  ELSE processedMessages[Least(ProcessedFor(message))].metadata

\* what the user types
UserInputs == {<<"h", "i">>}

\* the replies getAIResponse resolves with
Replies == {VisitExample}

\* handleSubmit, authenticated, up to await handleMessage
HandleSubmit ==
  /\ pc = "idle"
  /\ uuids < MaxUuids
  /\ \E input \in UserInputs :
       /\ Trim(input) # <<>>
       /\ messages' = AddMessage(messages, [role |-> "user", content |-> Trim(input)],
                                 RandomUUID(uuids + 1))
  /\ uuids' = uuids + 1
  /\ UNCHANGED <<pipelineVars, processedMessages, serviceVars, applierVars, audioVars>>

\* handleMessage: getAIResponse has resolved and
\* preprocessingPipeline.process(text) is called
ProcessReply ==
  /\ uuids + 1 < MaxUuids
  /\ ProcessFrom(Replies)

\* handleMessage from the return of process to the next await:
\* setProcessedMessage, addMessage
HandleMessage ==
  /\ LET processed == result
         processedMessageId == RandomUUID(uuids + 1)
         added == AddMessage(messages,
                             [role |-> "assistant",
                              content |-> processed.displayText],
                             RandomUUID(uuids + 2))
     IN  /\ processedMessages' =
              SetProcessedMessage(processedMessages,
                                  [id |-> processedMessageId,
                                   role |-> "assistant",
                                   content |-> processed.displayText,
                                   metadata |-> processed.metadata])
         /\ messages' = added
         /\ uuids' = IF added = messages THEN uuids + 1 ELSE uuids + 2
  /\ ReleaseCall
  /\ UNCHANGED <<serviceVars, applierVars, audioVars>>

\* handleNewChat, authenticated: clearMessages()
ClearMessages ==
  /\ pc = "idle"
  /\ messages # <<>>
  /\ messages' = <<>>
  /\ UNCHANGED <<pipelineVars, processedMessages, uuids, serviceVars, applierVars, audioVars>>

NextChat ==
  \/ HandleSubmit
  \/ ProcessReply
  \/ Invoke
  \/ PunctAsterisk
  \/ PunctHeading
  \/ PunctCaps
  \/ EmojiScan
  \/ LinkScan
  \/ Return
  \/ HandleMessage
  \/ ClearMessages

SpecChat == Init /\ [][NextChat]_vars

\* C14: the preprocessed metadata is attached to the chat message: every
\* assistant message in the store's messages list has a processedMessages
\* entry with the same id, so that the lookup of ChatMessage finds the
\* metadata of that reply.
C14_RepliesHaveProcessedEntry ==
  \A i \in 1..Len(messages) :
    messages[i].role = "assistant" =>
      /\ ProcessedFor(messages[i]) # {}
      /\ MetadataFor(messages[i]).links # <<>>

-----------------------------------------------------------------------------
(* visemeService: the two functions applied to bounded arguments *)

\* cue sequences handed to getCurrentViseme have at most MaxCues cues
MaxCues == 2

\* texts handed to textToVisemes
VisemeTexts ==
  { <<>>, <<SP>>, <<SP, NL>>, <<NL, SP, SP>>,
    <<"h", "i">>, <<"t", "e", "a">>, <<"E", "A">>,
    <<"a", SP, "b">>, <<SP, "c", "a", "t", SP>>, <<"1", "2">>,
    <<"E", "a", SP, "1", "b">> }

\* the optional duration handed to textToVisemes
VisemeDurations == {Undefined, Zero, Rat(1, 1), Rat(3, 2)}

\* the cues the sequences handed to getCurrentViseme are made of
CueChoices ==
  {Cue(name, duration) : name \in {"aa", "PP"}, duration \in {Undefined, Rat(1, 1)}}

RECURSIVE CueSequences(_)
CueSequences(n) ==
  IF n = 0 THEN {<<>>}
  ELSE LET shorter == CueSequences(n - 1)
       IN  shorter \cup {Append(q, c) : q \in shorter, c \in CueChoices}

\* the sequence [{A, duration 1}, {B, duration 1}] with A = aa, B = PP
TwoSecondCues == <<Cue("aa", Rat(1, 1)), Cue("PP", Rat(1, 1))>>

\* the playback times handed to getCurrentViseme
VisemeTimes ==
  {Rat(-1, 1), Zero, Rat(1, 10), Rat(1, 2), Rat(1, 1), Rat(11, 10), Rat(3, 2),
   Rat(2, 1), Rat(3, 1)}

InitService ==
  /\ PipelineConstructed
  /\ StoreCreated
  /\ ApplierConstructed
  /\ AudioIdle
  /\ vsText \in VisemeTexts
  /\ vsDuration \in VisemeDurations
  /\ vsCues \in CueSequences(MaxCues)
  /\ vsTime \in VisemeTimes
  /\ vsShape = "sil"
  /\ vsCalled = <<>>

\* visemes = textToVisemes(text, duration)
TextToVisemes ==
  /\ vsCalled = <<>>
  /\ vsCues' = textToVisemes(vsText, vsDuration)
  /\ vsCalled' = Append(vsCalled, "textToVisemes")
  /\ UNCHANGED <<pipelineVars, storeVars, applierVars, audioVars, vsText, vsDuration, vsTime, vsShape>>

\* getCurrentViseme(visemes, currentTime)
GetCurrentViseme ==
  /\ \A i \in 1..Len(vsCalled) : vsCalled[i] # "getCurrentViseme"
  /\ vsShape' = getCurrentViseme(vsCues, vsTime)
  /\ vsCalled' = Append(vsCalled, "getCurrentViseme")
  /\ UNCHANGED <<pipelineVars, storeVars, applierVars, audioVars, vsText, vsDuration, vsCues, vsTime>>

NextService ==
  \/ TextToVisemes
  \/ GetCurrentViseme

SpecService == InitService /\ [][NextService]_vars

\* has the function named fn been called
Called(fn) == \E i \in 1..Len(vsCalled) : vsCalled[i] = fn

\* is every code unit of text whitespace
IsBlank(text) == \A i \in 1..Len(text) : IsSpace(text[i])

\* C15: textToVisemes returns exactly one cue, silence with weight 1 and no
\* duration, whenever the text is empty or consists only of whitespace.
C15_BlankTextGivesOneSilenceCue ==
  (Called("textToVisemes") /\ IsBlank(vsText)) =>
    /\ Len(vsCues) = 1
    /\ vsCues[1].name = "sil"
    /\ vsCues[1].weight = 1
    /\ vsCues[1].duration = Undefined

\* C15 witness: textToVisemes has been called with a non-empty text of
\* whitespace and with a duration
C15_Witness ==
  /\ Called("textToVisemes")
  /\ IsBlank(vsText)
  /\ Len(vsText) > 1
  /\ vsDuration # Undefined

RECURSIVE CumulativeDuration(_, _)
\* the sum of the durations of the first k cues, a missing one counted 0.1 s
CumulativeDuration(cues, k) ==
  IF k = 0 THEN Zero
  ELSE RatAdd(CumulativeDuration(cues, k - 1),
              IF cues[k].duration = Undefined THEN Rat(1, 10) ELSE cues[k].duration)

\* the cues whose cumulative duration is at least t
ReachedBy(cues, t) ==
  {k \in 1..Len(cues) : RatLeq(t, CumulativeDuration(cues, k))}

\* C16: getCurrentViseme(cues, t) returns the shape of the first cue whose
\* cumulative duration (a missing duration counted as 0.1 s) is >= t, and
\* silence when the sequence is empty or t exceeds the total duration; for
\* [{A, 1}, {B, 1}] it returns A at 0.5, B at 1.5 and silence at 3.0.
C16_CurrentCueByCumulativeDuration ==
  Called("getCurrentViseme") =>
    /\ vsShape = IF ReachedBy(vsCues, vsTime) = {} THEN "sil"
                 ELSE vsCues[Least(ReachedBy(vsCues, vsTime))].name
    /\ vsCues = <<>> => vsShape = "sil"
    /\ (vsCues = TwoSecondCues /\ vsTime = Rat(1, 2)) => vsShape = "aa"
    /\ (vsCues = TwoSecondCues /\ vsTime = Rat(3, 2)) => vsShape = "PP"
    /\ (vsCues = TwoSecondCues /\ vsTime = Rat(3, 1)) => vsShape = "sil"

\* C16 witness: the second cue of [{A, 1}, {B, 1}] has been returned for 1.5
C16_Witness ==
  /\ Called("getCurrentViseme")
  /\ vsCues = TwoSecondCues
  /\ vsTime = Rat(3, 2)
  /\ vsShape = "PP"

-----------------------------------------------------------------------------
(* VisemeApplier: the methods called in any order *)

\* the shapes applyViseme is called with; aa and PP share an expression
AppliedShapes == {"sil", "aa", "PP", "E"}

\* the frame deltas applyViseme is called with, in milliseconds
Deltas == {0, 50, 100}

\* setVRM(vrm)
SetVRM ==
  /\ \E v \in VRMs :
       /\ vrm' = v
       /\ availableExpressions' = IF HasExpressionManager(v) THEN CommonExpressions
                                  ELSE availableExpressions
  /\ lastCall' = CallOf("setVRM", "sil", 0)
  /\ UNCHANGED <<pipelineVars, storeVars, serviceVars, audioVars, currentViseme, targetViseme,
                 transitionProgress, weights>>

\* applyViseme(visemeName, deltaTime)
ApplyVisemeWith(visemeName, deltaTime) ==
  /\ lastCall' = CallOf("applyViseme", visemeName, deltaTime)
  /\ IF ~HasExpressionManager(vrm)
     THEN UNCHANGED <<currentViseme, targetViseme, transitionProgress, weights>>
     ELSE LET changed == visemeName # targetViseme
              current == IF changed THEN targetViseme ELSE currentViseme
              target == IF changed THEN visemeName ELSE targetViseme
              started == IF changed THEN 0 ELSE transitionProgress
              progress == IF started < Complete
                          THEN Min(started + deltaTime, Complete)
                          ELSE started
              currentExpression == ExpressionFor(availableExpressions, current)
              targetExpression == ExpressionFor(availableExpressions, target)
          IN  /\ currentViseme' = current
              /\ targetViseme' = target
              /\ transitionProgress' = progress
              /\ weights' = SetValue(SetValue(weights, vrm, currentExpression,
                                              Complete - progress),
                                     vrm, targetExpression, progress)
  /\ UNCHANGED <<pipelineVars, storeVars, serviceVars, audioVars, vrm, availableExpressions>>

\* applyViseme called with any shape and any frame delta
ApplyViseme ==
  \E visemeName \in AppliedShapes, deltaTime \in Deltas :
    ApplyVisemeWith(visemeName, deltaTime)

\* the weights of renderer r after reset's forEach and its setValue of neutral
ResetWeights(w, r, available) ==
  LET zeroed == [w EXCEPT ![r] = [e \in Expressions |->
                                    IF e \in available THEN 0 ELSE w[r][e]]]
      neutral == findAvailableExpression(available, getVRMBlendShapes("sil"))
  IN  IF neutral # "null" THEN SetValue(zeroed, r, neutral, Complete) ELSE zeroed

\* reset()
Reset ==
  /\ lastCall' = CallOf("reset", "sil", 0)
  /\ IF ~HasExpressionManager(vrm)
     THEN UNCHANGED <<currentViseme, targetViseme, transitionProgress, weights>>
     ELSE /\ weights' = ResetWeights(weights, vrm, availableExpressions)
          /\ currentViseme' = "sil"
          /\ targetViseme' = "sil"
          /\ transitionProgress' = Complete
  /\ UNCHANGED <<pipelineVars, storeVars, serviceVars, audioVars, vrm, availableExpressions>>

NextApplier ==
  \/ SetVRM
  \/ ApplyViseme
  \/ Reset

SpecApplier == Init /\ [][NextApplier]_vars

\* the frame deltas of a render loop that advances time
FrameDeltas == {deltaTime \in Deltas : deltaTime > 0}

\* the render loop's call of a frame: applyViseme(shape, delta), delta > 0
Frame ==
  \E visemeName \in AppliedShapes, deltaTime \in FrameDeltas :
    ApplyVisemeWith(visemeName, deltaTime)

NextFrames ==
  \/ SetVRM
  \/ Frame
  \/ Reset

\* the applier driven by a render loop that never stops calling applyViseme
SpecFrames == Init /\ [][NextFrames]_vars /\ WF_vars(Frame)

\* C17: after reset(), called in any reachable state, currentViseme and
\* targetViseme are 'sil' and transitionProgress is 1.0; on the attached
\* renderer the silence expression has weight 1 and every other expression
\* weight 0.
C17_ResetForcesSilence ==
  lastCall.method = "reset" =>
    /\ currentViseme = "sil"
    /\ targetViseme = "sil"
    /\ transitionProgress = Complete
    /\ HasExpressionManager(vrm) =>
         \A e \in Expressions :
           weights[vrm][e] = IF e = "neutral" THEN Complete ELSE 0

\* C18: every call applyViseme(nextShape, deltaTime) with deltaTime >= 0
\* performs the transition step: if nextShape differs from targetViseme,
\* currentViseme becomes the old targetViseme, targetViseme becomes nextShape
\* and the progress restarts at 0; the progress then advances by
\* deltaTime / 0.1, clamped to 1.0; if nextShape equals targetViseme the two
\* shapes stay.  Hence 0 <= transitionProgress <= 1 always.
C18_ApplyPerformsTransitionStep ==
  /\ 0 <= transitionProgress /\ transitionProgress <= Complete
  /\ (lastCall.method = "applyViseme" /\ lastCall.deltaTime >= 0) =>
       IF lastCall.visemeName # lastCall.targetViseme
       THEN /\ currentViseme = lastCall.targetViseme
            /\ targetViseme = lastCall.visemeName
            /\ transitionProgress = Min(Complete, 0 + lastCall.deltaTime)
       ELSE /\ currentViseme = lastCall.currentViseme
            /\ targetViseme = lastCall.targetViseme
            /\ transitionProgress =
                 Min(Complete, lastCall.transitionProgress + lastCall.deltaTime)

-----------------------------------------------------------------------------
(* Claims about what one processor call removes and records *)

RECURSIVE MatchesFrom(_, _, _)
\* the matches of the pattern of loop in text from position i on, left to
\* right, each search starting where the match before it ended
MatchesFrom(loop, text, i) ==
  LET m == ExecOf(loop, text, i)
  IN  IF m.found THEN <<m>> \o MatchesFrom(loop, text, m.end) ELSE <<>>

RECURSIVE Deleted(_, _, _, _)
\* text from position i on with the matches ms[k], ms[k + 1], ... deleted
\* and every other code unit kept
Deleted(text, ms, k, i) ==
  IF i >= Len(text) THEN <<>>
  ELSE IF k <= Len(ms) /\ ms[k].index = i THEN Deleted(text, ms, k + 1, ms[k].end)
  ELSE <<At(text, i)>> \o Deleted(text, ms, k, i + 1)

\* the entries the call added to the sequence field of the metadata
Added(call, field) ==
  SubSeq(call.metadata[field], Len(call.received[field]) + 1,
         Len(call.metadata[field]))

\* the text an entry of field was made from
MatchedText(field, entry) ==
  IF field = "emojis" THEN entry.emoji
  ELSE IF field = "links" THEN entry.displayText
  ELSE entry.text

\* the number of code units of text before position i that are in no match
\* of ms
RetainedBefore(ms, i) ==
  Cardinality({j \in 0..(i - 1) :
                 \A k \in 1..Len(ms) : j < ms[k].index \/ j >= ms[k].end})

C22_OffsetsExactWithoutHeadings ==
  \A k \in ReturnedCalls :
    (calls[k].name \in DefaultNames /\ ~HasHeadingMarker(calls[k].text)) =>
      LET name == calls[k].name
          added == Added(calls[k], OwnField(name))
          ms == MatchesFrom(name, calls[k].text, 0)
      IN  IF name = "punctuation"
          THEN \A j \in 1..Len(added) :
                 added[j].type = "asterisk" =>
                   Substring(calls[k].cleanText, added[j].startIndex,
                             added[j].endIndex) = added[j].text
          ELSE /\ Len(added) = Len(ms)
               /\ \A j \in 1..Len(ms) :
                    IF name = "emoji"
                    THEN added[j].position = RetainedBefore(ms, ms[j].index)
                    ELSE /\ added[j].startIndex = RetainedBefore(ms, ms[j].index)
                         /\ added[j].endIndex - added[j].startIndex
                              = ms[j].end - ms[j].index

\* C23: if the inner text of an asterisk match is exactly an uppercase word
\* W of length >= 3, the emphasis sequence PunctuationProcessor.process
\* returns holds the asterisk span for W and no span of type caps with
\* text W.
C23_AsteriskWordGetsNoCapsEntry ==
  \A k \in ReturnedCalls :
    calls[k].name = "punctuation" =>
      LET added == Added(calls[k], "emphasis")
      IN  \A i \in 1..Len(added) :
            (/\ added[i].type = "asterisk"
             /\ Len(added[i].text) >= MinCapsLen
             /\ \A c \in 1..Len(added[i].text) : IsUpper(added[i].text[c])) =>
              ~\E j \in 1..Len(added) :
                 added[j].type = "caps" /\ added[j].text = added[i].text

\* does a line of text begin with 1 to 6 '#' followed by whitespace
LineBeginsWithMarker(text) ==
  \E i \in 0..(Len(text) - 1) :
    /\ i = 0 \/ At(text, i - 1) = NL
    /\ \E n \in 1..MaxHeadingLevel :
         /\ i + n < Len(text)
         /\ \A c \in i..(i + n - 1) : IsHash(At(text, c))
         /\ IsSpace(At(text, i + n))

\* C24: after PunctuationProcessor.process no line of the returned cleanText
\* begins with 1 to 6 '#' followed by whitespace, the returned displayText
\* is the handed text, markers included, and no metadata entry is recorded
\* for a heading marker: every entry added is an asterisk or a caps span.
C24_HeadingMarkersStripped ==
  \A k \in ReturnedCalls :
    calls[k].name = "punctuation" =>
      /\ ~LineBeginsWithMarker(calls[k].cleanText)
      /\ calls[k].displayText = calls[k].text
      /\ \A j \in 1..Len(Added(calls[k], "emphasis")) :
           Added(calls[k], "emphasis")[j].type \in {"asterisk", "caps"}
      /\ calls[k].metadata.emojis = calls[k].received.emojis
      /\ calls[k].metadata.links = calls[k].received.links

-----------------------------------------------------------------------------
(* Claims about the cue sequence of textToVisemes *)

RECURSIVE WordsOf(_, _)
\* the whitespace-separated non-empty words of text from position i on: the
\* maximal runs of code units that are not whitespace
WordsOf(text, i) ==
  IF i >= Len(text) THEN <<>>
  ELSE IF IsSpace(At(text, i)) THEN WordsOf(text, i + 1)
  ELSE LET e == RunEnd(text, i, NotSpace)
       IN  <<Substring(text, i, e)>> \o WordsOf(text, e)

\* the duration textToVisemes spreads over the text: d, or 0.15 s per
\* code unit when d is absent
TotalDuration(text, d) == IF d = Undefined THEN Rat(15 * Len(text), 100) ELSE d

RECURSIVE ReferenceScan(_, _, _)
\* the cues of the left-to-right scan of word from position i on
ReferenceScan(word, i, timePerChar) ==
  IF i >= Len(word) THEN <<>>
  ELSE IF i + 1 < Len(word) /\ VowelCombination(<<At(word, i), At(word, i + 1)>>) # "none"
  THEN <<[name |-> VowelCombination(<<At(word, i), At(word, i + 1)>>), weight |-> 1,
          duration |-> RatScale(timePerChar, 2, 1)]>>
       \o ReferenceScan(word, i + 2, timePerChar)
  ELSE IF getVisemeForChar(At(word, i)) # "sil"
  THEN <<[name |-> getVisemeForChar(At(word, i)), weight |-> 1,
          duration |-> timePerChar]>>
       \o ReferenceScan(word, i + 1, timePerChar)
  ELSE ReferenceScan(word, i + 1, timePerChar)

RECURSIVE ReferenceWords(_, _, _)
\* the cues of the words k, k + 1, ... of words, each between two pauses
ReferenceWords(words, k, timePerChar) ==
  IF k > Len(words) THEN <<>>
  ELSE <<[name |-> "sil", weight |-> 1, duration |-> RatScale(timePerChar, 1, 2)]>>
       \o ReferenceScan(words[k], 0, timePerChar)
       \o <<[name |-> "sil", weight |-> 1, duration |-> RatScale(timePerChar, 1, 2)]>>
       \o ReferenceWords(words, k + 1, timePerChar)

\* the reference sequence for a non-blank text
Reference(text, d) ==
  ReferenceWords(WordsOf(text, 0), 1, RatScale(TotalDuration(text, d), 1, Len(text)))
    \o <<[name |-> "sil", weight |-> 1, duration |-> Undefined]>>

\* C25: for a non-blank text, textToVisemes(text, d) is the reference
\* sequence built with timePerChar = d / text.length (d defaulting to
\* 0.15 * text.length): per non-empty word a pause of 0.5 * timePerChar, the
\* cues of the scan (a vowel digraph first, 2 * timePerChar for two code
\* units; otherwise one code unit, a cue of timePerChar unless it maps to
\* silence), a pause of 0.5 * timePerChar; then one silence cue without
\* duration.  Every cue has weight 1 and there are 2 * words + 1 silence cues.
C25_CuesEqualReference ==
  (Called("textToVisemes") /\ ~IsBlank(vsText)) =>
    /\ vsCues = Reference(vsText, vsDuration)
    /\ \A k \in 1..Len(vsCues) : vsCues[k].weight = 1
    /\ Cardinality({k \in 1..Len(vsCues) : vsCues[k].name = "sil"})
         = 2 * Len(WordsOf(vsText, 0)) + 1

\* C25 witness: textToVisemes has returned for a text of two words with a
\* vowel digraph in mixed case and a code unit that maps to silence
C25_Witness ==
  /\ Called("textToVisemes")
  /\ vsDuration # Zero
  /\ Len(WordsOf(vsText, 0)) = 2
  /\ \E i \in 1..Len(vsText) :
       ~IsSpace(vsText[i]) /\ getVisemeForChar(vsText[i]) = "sil"
  /\ \E k \in 1..Len(vsCues) :
       /\ vsCues[k].name = "E"
       /\ vsCues[k].duration # Undefined
       /\ \E j \in 1..Len(vsCues) :
            /\ vsCues[j].name = "PP"
            /\ vsCues[k].duration = RatScale(vsCues[j].duration, 2, 1)

RECURSIVE ExplicitDuration(_, _)
\* the sum of the durations of the first k cues, counting only the cues that
\* have one
ExplicitDuration(cues, k) ==
  IF k = 0 THEN Zero
  ELSE RatAdd(ExplicitDuration(cues, k - 1),
              IF cues[k].duration = Undefined THEN Zero ELSE cues[k].duration)

\* C26: for every non-blank text and total duration d, the explicit durations
\* of the cues textToVisemes(text, d) returns sum to at most d.
C26_TimelineFitsDuration ==
  (Called("textToVisemes") /\ ~IsBlank(vsText)) =>
    RatLeq(ExplicitDuration(vsCues, Len(vsCues)), TotalDuration(vsText, vsDuration))

-----------------------------------------------------------------------------
(* Claims about the weights and the progress of VisemeApplier *)

\* has applyViseme just run on an applier with a renderer attached
Applied == lastCall.method = "applyViseme" /\ HasExpressionManager(vrm)

\* C27: after every applyViseme call on an applier with a renderer attached,
\* the renderer weight of the expression chosen for currentViseme is
\* 1 - transitionProgress and the weight of the expression chosen for
\* targetViseme is transitionProgress, for every pair of shapes, also a pair
\* that getVRMBlendShapes maps to the same expression name.
C27_WeightsFollowProgress ==
  Applied =>
    /\ weights[vrm][ExpressionFor(availableExpressions, currentViseme)]
         = Complete - transitionProgress
    /\ weights[vrm][ExpressionFor(availableExpressions, targetViseme)]
         = transitionProgress

RECURSIVE TotalWeight(_, _)
\* the sum of the weights w holds for the expressions of S
TotalWeight(w, S) ==
  IF S = {} THEN 0
  ELSE LET e == CHOOSE x \in S : TRUE
       IN  w[e] + TotalWeight(w, S \ {e})

\* C28: after any sequence of applyViseme calls that starts from a reset
\* applier, a shape change in the middle of a transition included, every
\* renderer expression other than those of currentViseme and targetViseme
\* has weight 0, and the weights sum to 1.
C28_NoStaleWeight ==
  (Applied /\ lastCall.sinceReset) =>
    /\ \A e \in Expressions :
         e \notin {ExpressionFor(availableExpressions, currentViseme),
                   ExpressionFor(availableExpressions, targetViseme)} =>
           weights[vrm][e] = 0
    /\ TotalWeight(weights[vrm], Expressions) = Complete

\* has a call applyViseme(shape, ...) just been made
CalledWith(shape) ==
  lastCall.method = "applyViseme" /\ lastCall.visemeName = shape

\* C29: when applyViseme is called once per frame with the same shape and
\* positive frame deltas, the applier reaches transitionProgress = 1.0
\* unless a call with a different shape arrives; and a call with the target
\* shape on a stable applier leaves it stable, with currentViseme and
\* targetViseme unchanged.
C29_TransitionsComplete ==
  /\ [](CalledWith(lastCall.targetViseme) /\ lastCall.transitionProgress = Complete
          => /\ transitionProgress = Complete
             /\ currentViseme = lastCall.currentViseme
             /\ targetViseme = lastCall.targetViseme)
  /\ \A shape \in AppliedShapes :
       (CalledWith(shape) /\ targetViseme = shape)
         ~> (transitionProgress = Complete
             \/ (lastCall.method = "applyViseme" /\ lastCall.visemeName # shape))

-----------------------------------------------------------------------------
(* Speech service: playAudio and stopAudio *)

\* playPc[n] is the position of the n-th playAudio call: "idle" (not yet
\* called), "resume" (awaiting audioContext.resume()), "decode" (awaiting
\* decodeAudioData), "promise" (awaiting the promise that settles when the
\* source has ended), "done" (returned), "failed" (thrown).
\* sourceState[n] is the state of the source that call creates: "none" (not
\* created), "playing" (started and sounding), "silent" (stopped or played
\* to the end, its ended event still to be dispatched), "ended".

\* source.stop(); source.disconnect(): a sounding source falls silent, its
\* ended event is dispatched later
StopSource(st, source) ==
  IF source # 0 /\ st[source] = "playing" THEN [st EXCEPT ![source] = "silent"]
  ELSE st

\* playAudio(audioBuffer) from the call to its first await; an empty buffer
\* throws into the catch block. A new AudioContext is suspended or running,
\* as the browser's autoplay policy decides.
PlayAudio ==
  \E n \in 1..MaxPlays, empty \in BOOLEAN, created \in {"suspended", "running"} :
    /\ playPc[n] = "idle"
    /\ \A k \in 1..(n - 1) : playPc[k] # "idle"
    /\ sourceState' = StopSource(sourceState, currentAudioSource)
    /\ currentAudioSource' = 0
    /\ IF empty
       THEN /\ playPc' = [playPc EXCEPT ![n] = "failed"]
            /\ isSpeaking' = FALSE
            /\ UNCHANGED audioContext
       ELSE LET context == IF audioContext = "null" THEN created ELSE audioContext
            IN  /\ audioContext' = context
                /\ playPc' = [playPc EXCEPT ![n] = IF context = "suspended"
                                                   THEN "resume" ELSE "decode"]
                /\ UNCHANGED isSpeaking
    /\ UNCHANGED <<pipelineVars, storeVars, serviceVars, applierVars>>

\* playAudio: audioContext.resume() has resolved, decodeAudioData is called
ResumeDone ==
  \E n \in 1..MaxPlays :
    /\ playPc[n] = "resume"
    /\ audioContext' = "running"
    /\ playPc' = [playPc EXCEPT ![n] = "decode"]
    /\ UNCHANGED <<pipelineVars, storeVars, serviceVars, applierVars,
                   currentAudioSource, sourceState, isSpeaking>>

\* playAudio: decodeAudioData has resolved; the source is created, stored in
\* currentAudioSource and started
DecodeDone ==
  \E n \in 1..MaxPlays :
    /\ playPc[n] = "decode"
    /\ currentAudioSource' = n
    /\ sourceState' = [sourceState EXCEPT ![n] = "playing"]
    /\ playPc' = [playPc EXCEPT ![n] = "promise"]
    /\ UNCHANGED <<pipelineVars, storeVars, serviceVars, applierVars,
                   audioContext, isSpeaking>>

\* playAudio: decodeAudioData has rejected; the catch and finally blocks
DecodeFails ==
  \E n \in 1..MaxPlays :
    /\ playPc[n] = "decode"
    /\ currentAudioSource' = 0
    /\ isSpeaking' = FALSE
    /\ playPc' = [playPc EXCEPT ![n] = "failed"]
    /\ UNCHANGED <<pipelineVars, storeVars, serviceVars, applierVars,
                   audioContext, sourceState>>

\* a source has played its buffer to the end
SourceFinishes ==
  \E n \in 1..MaxPlays :
    /\ sourceState[n] = "playing"
    /\ sourceState' = [sourceState EXCEPT ![n] = "silent"]
    /\ UNCHANGED <<pipelineVars, storeVars, serviceVars, applierVars,
                   audioContext, currentAudioSource, playPc, isSpeaking>>

\* playAudio: source.onended runs, the promise resolves and the finally
\* block runs
OnEnded ==
  \E n \in 1..MaxPlays :
    /\ sourceState[n] = "silent"
    /\ playPc[n] = "promise"
    /\ sourceState' = [sourceState EXCEPT ![n] = "ended"]
    /\ currentAudioSource' = 0
    /\ isSpeaking' = FALSE
    /\ playPc' = [playPc EXCEPT ![n] = "done"]
    /\ UNCHANGED <<pipelineVars, storeVars, serviceVars, applierVars, audioContext>>

\* stopAudio()
StopAudio ==
  /\ sourceState' = StopSource(sourceState, currentAudioSource)
  /\ currentAudioSource' = 0
  /\ isSpeaking' = FALSE
  /\ UNCHANGED <<pipelineVars, storeVars, serviceVars, applierVars,
                 audioContext, playPc>>

\* handleMessage: useChatStore.getState().setSpeaking(true)
SetSpeaking ==
  /\ ~isSpeaking
  /\ isSpeaking' = TRUE
  /\ UNCHANGED <<pipelineVars, storeVars, serviceVars, applierVars,
                 audioContext, currentAudioSource, playPc, sourceState>>

NextAudio ==
  \/ SetSpeaking
  \/ PlayAudio
  \/ ResumeDone
  \/ DecodeDone
  \/ DecodeFails
  \/ SourceFinishes
  \/ OnEnded
  \/ StopAudio

SpecAudio == Init /\ [][NextAudio]_vars

\* the sources that are sounding
Playing == {n \in 1..MaxPlays : sourceState[n] = "playing"}

\* C30: at most one source started by playAudio is playing at any time,
\* under every interleaving of playAudio and stopAudio calls, a second
\* playAudio that starts while the first awaits resume or decode included;
\* and while a source is playing currentAudioSource refers to it, so that
\* stopAudio stops it.
C30_OneSourcePlaying ==
  /\ Cardinality(Playing) <= 1
  /\ \A n \in Playing : currentAudioSource = n

=============================================================================
